---------------------------- MODULE Spec2Model ----------------------------
(***************************************************************************)
(* Telemetry reshaping and lap-summary derivation of the HackTrack25       *)
(* workbench: lap boundary reconciliation (pages/02_Telemetry_and_Track.py),*)
(* from utils/loader.py the long->wide pivot, the column role map kept in  *)
(* the Streamlit session and the feature matrix builder, and from          *)
(* data_utils.py the numeric coercion and the fast/slow labeler.           *)
(*                                                                         *)
(* Values.  A cell that may be missing (NaN / NaT / None) is modelled as a *)
(* set with at most one element: {} is the missing value, {v} is the value *)
(* v.  Timestamps are integers counting milliseconds; durations are        *)
(* milliseconds as well, so 75.0 s is 75000.                               *)
(***************************************************************************)
EXTENDS Integers, Sequences, FiniteSets, TLC

VARIABLES
    start_file,     \* barber/R1_barber_lap_start.csv : [exists, rows]
    end_file,       \* barber/R1_barber_lap_end.csv   : [exists, rows]
    time_file,      \* barber/R1_barber_lap_time.csv  : [exists, rows]
    lap_merged,     \* build_r1_lap_summary's local `lap` before the filters
    lap_summary,    \* outcome of the last build_r1_lap_summary() call
    df,             \* the table handed to pivot_trd_long_to_wide
    wide,           \* what pivot_trd_long_to_wide(df) returned
    wide_again,     \* what pivot_trd_long_to_wide(wide) returned
    session_state,  \* st.session_state: {} without "mapping", else {mapping}
    page,           \* the page script that ran last and the table that
                    \* sidebar_data_selector handed to it
    loaded,         \* history: the last two tables sidebar_data_selector
                    \* returned in this session, oldest first
    ml_df,          \* build_ml_matrices' argument df
    target_col,     \* build_ml_matrices' argument target_col
    drop_cols,      \* build_ml_matrices' argument drop_cols
    ml_out,         \* what build_ml_matrices returned
    csv,            \* the table read_csv gave load_and_pivot_any in the
                    \* last run of sidebar_data_selector that returned
    raw_df,         \* clean_numeric's argument (the caller's table)
    clean_out,      \* what clean_numeric returned
    lab_df,         \* add_fast_slow_label's argument df
    lab_target,     \* add_fast_slow_label's argument target_col
    lab_label,      \* add_fast_slow_label's argument label_col
    lab_threshold,  \* add_fast_slow_label's argument threshold
    lab_out         \* what add_fast_slow_label returned

lap_vars == <<start_file, end_file, time_file, lap_merged, lap_summary>>
pivot_vars == <<df, wide, wide_again>>
session_vars == <<session_state, page, loaded, csv>>
ml_vars == <<ml_df, target_col, drop_cols, ml_out>>
clean_vars == <<raw_df, clean_out>>
label_vars == <<lab_df, lab_target, lab_label, lab_threshold, lab_out>>
vars == <<lap_vars, pivot_vars, session_vars, ml_vars, clean_vars, label_vars>>

---------------------------------------------------------------------------
(* Missing values                                                          *)

NaN == {}
NaT == {}
Some(v) == {v}
Val(x) == CHOOSE v \in x : TRUE

---------------------------------------------------------------------------
(* Bounds of the model                                                     *)

\* Total number of event rows over the three lap files.
MaxRows == 4

\* Number of event rows of one lap file.
MaxFileRows == 2

\* Number of rows of a telemetry table handed to the pivot.
MaxTableRows == 2

---------------------------------------------------------------------------
(* Lap event records                                                       *)

SESSION_LABEL == "R1"

group_keys == <<"lap", "vehicle_id", "vehicle_number", "outing">>

\* A raw CSV timestamp cell: text that parses to an instant, or text that
\* does not parse.
RawStamp(ms) == [parses |-> TRUE, ms |-> ms]
Garbage == [parses |-> FALSE, ms |-> 0]

Event(lap, vid, vnum, outing, raw) ==
    [lap |-> lap, vehicle_id |-> vid, vehicle_number |-> vnum,
     outing |-> outing, timestamp |-> raw]

\* pd.to_datetime(..., errors="coerce") on one cell.
to_datetime(raw) == IF raw.parses THEN Some(raw.ms) ELSE NaT

ParseTimestamps(events) ==
    [i \in DOMAIN events |-> [events[i] EXCEPT !.timestamp = to_datetime(@)]]


KeyOf(r) == <<r.lap, r.vehicle_id, r.vehicle_number, r.outing>>

\* groupby(..., dropna=True), the default: a row with a missing value in any
\* grouping column belongs to no group.
HasNaKey(r) == \E i \in 1..Len(group_keys) : KeyOf(r)[i] = NaN

GroupKeySet(events) == {KeyOf(events[i]) : i \in {j \in DOMAIN events : ~HasNaKey(events[j])}}

\* Variant: an aggregate that does not skip NaT (one unparseable event
\* leaves the group without a usable timestamp).
GroupStampsNoSkip(events, k) ==
    LET group == {j \in DOMAIN events : KeyOf(events[j]) = k}
    IN  IF \E j \in group : events[j].timestamp = NaT THEN {}
        ELSE {Val(events[i].timestamp) : i \in group}

\* The non-missing timestamps of one group (min and max skip NaT).
GroupStamps(events, k) ==
    {Val(events[i].timestamp) :
        i \in {j \in DOMAIN events : KeyOf(events[j]) = k /\ events[j].timestamp # NaT}}

\* groupby(sort=True), the default: groups come out in ascending key order.
KeyLess(a, b) ==
    \E i \in 1..Len(a) :
        /\ \A j \in 1..(i - 1) : a[j] = b[j]
        /\ Val(a[i]) < Val(b[i])

RECURSIVE SortKeys(_)
SortKeys(S) ==
    IF S = {} THEN <<>>
    ELSE LET m == CHOOSE k \in S : \A o \in S \ {k} : KeyLess(k, o)
         IN  <<m>> \o SortKeys(S \ {m})

MinOf(S) == IF S = {} THEN NaT ELSE Some(CHOOSE m \in S : \A x \in S : m <= x)
MaxOf(S) == IF S = {} THEN NaT ELSE Some(CHOOSE m \in S : \A x \in S : m >= x)

\* Variant: groupby(...).first(), the first usable timestamp in file order.
StartAggFirst(events) ==
    LET ks == SortKeys(GroupKeySet(events))
        usable(k) == {j \in DOMAIN events :
                         KeyOf(events[j]) = k /\ events[j].timestamp # NaT}
    IN  [i \in 1..Len(ks) |->
            [key |-> ks[i],
             timestamp_start |->
                 IF usable(ks[i]) = {} THEN NaT
                 ELSE events[CHOOSE j \in usable(ks[i]) :
                                 \A o \in usable(ks[i]) : j <= o].timestamp]]

\* Variant: the latest start instead of the earliest.
StartAggMax(events) ==
    LET ks == SortKeys(GroupKeySet(events))
    IN  [i \in 1..Len(ks) |->
            [key |-> ks[i], timestamp_start |-> MaxOf(GroupStamps(events, ks[i]))]]

\* start_df.groupby(group_keys, as_index=False)["timestamp"].min()
\*         .rename(columns={"timestamp": "timestamp_start"})
StartAgg(events) ==
    LET ks == SortKeys(GroupKeySet(events))
    IN  [i \in 1..Len(ks) |->
            [key |-> ks[i], timestamp_start |-> MinOf(GroupStamps(events, ks[i]))]]

\* end_df.groupby(group_keys, as_index=False)["timestamp"].max()
EndAgg(events) ==
    LET ks == SortKeys(GroupKeySet(events))
    IN  [i \in 1..Len(ks) |->
            [key |-> ks[i], timestamp_end |-> MaxOf(GroupStamps(events, ks[i]))]]

\* time_df.groupby(group_keys, as_index=False)["timestamp"].max()
TimeAgg(events) ==
    LET ks == SortKeys(GroupKeySet(events))
    IN  [i \in 1..Len(ks) |->
            [key |-> ks[i], timestamp_lap |-> MaxOf(GroupStamps(events, ks[i]))]]

\* Variant: on=["lap", "vehicle_id"], the other two key columns left out.
RECURSIVE MergeInnerOnLapVehicle(_, _)
MergeInnerOnLapVehicle(left, right) ==
    IF left = <<>> THEN <<>>
    ELSE LET l == Head(left)
             m == SelectSeq(right, LAMBDA r : /\ r.key[1] = l.key[1]
                                              /\ r.key[2] = l.key[2])
         IN  [i \in 1..Len(m) |->
                 [key |-> l.key,
                  timestamp_start |-> l.timestamp_start,
                  timestamp_end |-> m[i].timestamp_end]]
             \o MergeInnerOnLapVehicle(Tail(left), right)

\* start_agg.merge(end_agg, on=group_keys, how="inner"): one row per pair of
\* rows with equal keys, in the order of the left table.
RECURSIVE MergeInner(_, _)
MergeInner(left, right) ==
    IF left = <<>> THEN <<>>
    ELSE LET l == Head(left)
             m == SelectSeq(right, LAMBDA r : r.key = l.key)
         IN  [i \in 1..Len(m) |->
                 [key |-> l.key,
                  timestamp_start |-> l.timestamp_start,
                  timestamp_end |-> m[i].timestamp_end]]
             \o MergeInner(Tail(left), right)

\* Variant: how="inner" for the time-mark aggregate as well.
RECURSIVE MergeLeftAsInner(_, _)
MergeLeftAsInner(left, right) ==
    IF left = <<>> THEN <<>>
    ELSE LET l == Head(left)
             m == SelectSeq(right, LAMBDA r : r.key = l.key)
         IN  [i \in 1..Len(m) |->
                 [key |-> l.key,
                  timestamp_start |-> l.timestamp_start,
                  timestamp_end |-> l.timestamp_end,
                  timestamp_lap |-> m[i].timestamp_lap]]
             \o MergeLeftAsInner(Tail(left), right)

\* .merge(time_agg, on=group_keys, how="left"): every left row is kept; a
\* row without a partner gets a missing timestamp_lap.
RECURSIVE MergeLeft(_, _)
MergeLeft(left, right) ==
    IF left = <<>> THEN <<>>
    ELSE LET l == Head(left)
             m == SelectSeq(right, LAMBDA r : r.key = l.key)
             stamps == IF m = <<>> THEN <<NaT>>
                       ELSE [i \in 1..Len(m) |-> m[i].timestamp_lap]
         IN  [i \in 1..Len(stamps) |->
                 [key |-> l.key,
                  timestamp_start |-> l.timestamp_start,
                  timestamp_end |-> l.timestamp_end,
                  timestamp_lap |-> stamps[i]]]
             \o MergeLeft(Tail(left), right)

\* (timestamp_end - timestamp_start).dt.total_seconds(), in milliseconds;
\* missing when either side is missing.
Duration(ts_start, ts_end) ==
    IF ts_start = NaT \/ ts_end = NaT THEN NaN
    ELSE Some(Val(ts_end) - Val(ts_start))

\* The merged frame with its RangeIndex 0..n-1 and the duration_s column.
LapFrame(merged) ==
    [i \in 1..Len(merged) |->
        [index |-> i - 1,
         lap |-> merged[i].key[1],
         vehicle_id |-> merged[i].key[2],
         vehicle_number |-> merged[i].key[3],
         outing |-> merged[i].key[4],
         timestamp_start |-> merged[i].timestamp_start,
         timestamp_end |-> merged[i].timestamp_end,
         timestamp_lap |-> merged[i].timestamp_lap,
         duration_s |-> Duration(merged[i].timestamp_start,
                                 merged[i].timestamp_end)]]

MinDurationMs == 75000
MaxDurationMs == 400000

\* Variant: the upper end of the band included (<= 400.0).
InDurationBandInclusive(r) ==
    /\ r.duration_s # NaN
    /\ Val(r.duration_s) >= MinDurationMs
    /\ Val(r.duration_s) <= MaxDurationMs

\* (lap["duration_s"] >= 75.0) & (lap["duration_s"] < 400.0); a comparison
\* with a missing duration is False.
InDurationBand(r) ==
    /\ r.duration_s # NaN
    /\ Val(r.duration_s) >= MinDurationMs
    /\ Val(r.duration_s) < MaxDurationMs

\* lap["timestamp_end"] > lap["timestamp_start"]; False when either is NaT.
EndAfterStart(r) ==
    /\ r.timestamp_start # NaT
    /\ r.timestamp_end # NaT
    /\ Val(r.timestamp_end) > Val(r.timestamp_start)

\* Variant: the duration mask left out, only end > start.
KeepRowCausalOnly(r) == EndAfterStart(r)

\* Variant: only the upper end of the band is enforced.
KeepRowBelowMax(r) ==
    /\ r.duration_s # NaN
    /\ Val(r.duration_s) < MaxDurationMs

\* The two boolean-mask selections, one after the other.
KeepRow(r) == InDurationBand(r) /\ EndAfterStart(r)

FilterLaps(frame) == SelectSeq(frame, KeepRow)

\* lap["session"] = SESSION_LABEL
StampSession(frame) ==
    [i \in 1..Len(frame) |->
        [f \in DOMAIN frame[i] \cup {"session"} |->
            IF f = "session" THEN SESSION_LABEL ELSE frame[i][f]]]

\* Variant: sort_values(["lap", "vehicle_id"]).
SortLessLapFirst(a, b) ==
    \/ Val(a.lap) < Val(b.lap)
    \/ /\ a.lap = b.lap
       /\ Val(a.vehicle_id) < Val(b.vehicle_id)

\* Row order of sort_values(["vehicle_id", "lap"]).
SortLess(a, b) ==
    \/ Val(a.vehicle_id) < Val(b.vehicle_id)
    \/ /\ a.vehicle_id = b.vehicle_id
       /\ Val(a.lap) < Val(b.lap)

\* Insert r behind every row that does not sort after it (the multi-column
\* sort is a stable lexsort).
InsertSorted(sorted, r) ==
    LET later == {i \in 1..Len(sorted) : SortLess(r, sorted[i])}
        pos == IF later = {} THEN Len(sorted) + 1
               ELSE CHOOSE i \in later : \A j \in later : i <= j
    IN  SubSeq(sorted, 1, pos - 1) \o <<r>> \o SubSeq(sorted, pos, Len(sorted))

RECURSIVE sort_values(_)
sort_values(frame) ==
    IF frame = <<>> THEN <<>>
    ELSE InsertSorted(sort_values(SubSeq(frame, 1, Len(frame) - 1)),
                      frame[Len(frame)])

\* reset_index(drop=True)
reset_index(frame) ==
    [i \in 1..Len(frame) |-> [frame[i] EXCEPT !.index = i - 1]]

\* build_r1_lap_summary up to the duration column: parse, aggregate, merge.
MergeAggregates(start_df, end_df, time_df) ==
    LET start_agg == StartAgg(ParseTimestamps(start_df))
        end_agg == EndAgg(ParseTimestamps(end_df))
        time_agg == TimeAgg(ParseTimestamps(time_df))
    IN  LapFrame(MergeLeft(MergeInner(start_agg, end_agg), time_agg))

\* The rest of build_r1_lap_summary: filter, stamp, sort, re-index.
FinishSummary(frame) ==
    reset_index(sort_values(StampSession(FilterLaps(frame))))

Reconcile(start_df, end_df, time_df) ==
    FinishSummary(MergeAggregates(start_df, end_df, time_df))

\* Variant: only the start and the end file are required.
MissingFilesStartEnd ==
    {f \in {"start", "end"} :
        \/ f = "start" /\ ~start_file.exists
        \/ f = "end" /\ ~end_file.exists}

\* load_r1_lap_files: the paths that do not exist.
MissingFiles ==
    {f \in {"start", "end", "time"} :
        \/ f = "start" /\ ~start_file.exists
        \/ f = "end" /\ ~end_file.exists
        \/ f = "time" /\ ~time_file.exists}

NotRun == [status |-> "not_run", rows |-> <<>>]
FileNotFoundError == [status |-> "FileNotFoundError", rows |-> <<>>]
Ok(rows) == [status |-> "ok", rows |-> rows]

\* load_r1_lap_files raises when a path is missing, and build_r1_lap_summary
\* lets the exception through.  This is one execution of the two function
\* bodies; Streamlit's replay of an earlier completed result is not part of
\* it.
build_r1_lap_summary ==
    IF MissingFiles # {} THEN FileNotFoundError
    ELSE Ok(Reconcile(start_file.rows, end_file.rows, time_file.rows))

---------------------------------------------------------------------------
(* Telemetry tables (utils/loader.py)                                      *)
(*                                                                         *)
(* A table is [columns, rows]: the column labels in order, and one         *)
(* sequence of cells per row, aligned with the columns; the row at         *)
(* position i carries index label i - 1 (a RangeIndex).  A cell is missing *)
(* or holds a scalar.  A scalar is text, a number (a reduced fraction      *)
(* <<numerator, denominator>>) or a datetime (milliseconds).               *)

Text(s) == [kind |-> "text", text |-> s, num |-> <<0, 0>>]
\* Text that spells the instant ms.
TimeText(ms) == [kind |-> "timetext", text |-> "", num |-> <<ms, 1>>]
Number(n) == [kind |-> "number", text |-> "", num |-> <<n, 1>>]
Fraction(q) == [kind |-> "number", text |-> "", num |-> q]
Datetime(ms) == [kind |-> "datetime", text |-> "", num |-> <<ms, 1>>]

\* str(c) of a column label: text stays, a number becomes its decimal text.
Str(c) ==
    IF c.kind = "number" THEN [kind |-> "text", text |-> "", num |-> c.num]
    ELSE c

LAP == Text("lap")
TIMESTAMP == Text("timestamp")
TELEMETRY_NAME == Text("telemetry_name")
TELEMETRY_VALUE == Text("telemetry_value")
ROW == Text("row")

Table(columns, rows) == [columns |-> columns, rows |-> rows]

HasColumn(t, c) == \E i \in DOMAIN t.columns : t.columns[i] = c
ColumnIndex(t, c) == CHOOSE i \in DOMAIN t.columns : t.columns[i] = c
CellAt(t, r, c) == t.rows[r][ColumnIndex(t, c)]

RECURSIVE GCD(_, _)
GCD(a, b) == IF b = 0 THEN a ELSE GCD(b, a % b)

Abs(n) == IF n < 0 THEN -n ELSE n

Reduce(q) ==
    LET g == GCD(Abs(q[1]), q[2])
    IN  <<q[1] \div g, q[2] \div g>>

FracAdd(p, q) == Reduce(<<p[1] * q[2] + q[1] * p[2], p[2] * q[2]>>)
FracDiv(p, n) == Reduce(<<p[1], p[2] * n>>)
FracLess(p, q) == p[1] * q[2] < q[1] * p[2]

\* Python's order of the channel names that occur.
NameOrder == <<"aps", "speed", "telemetry_name", "telemetry_value">>
NameRank(s) == CHOOSE i \in DOMAIN NameOrder : NameOrder[i] = s

\* The order pandas sorts group keys and column labels in.
ScalarLess(a, b) ==
    IF a.kind = "text" THEN NameRank(a.text) < NameRank(b.text)
    ELSE FracLess(a.num, b.num)

RECURSIVE SortScalars(_)
SortScalars(S) ==
    IF S = {} THEN <<>>
    ELSE LET m == CHOOSE x \in S : \A y \in S \ {x} : ScalarLess(x, y)
         IN  <<m>> \o SortScalars(S \ {m})

\* Lexicographic order of index keys (sequences of non-missing cells).
IndexKeyLess(a, b) ==
    \E i \in 1..Len(a) :
        /\ \A j \in 1..(i - 1) : a[j] = b[j]
        /\ ScalarLess(Val(a[i]), Val(b[i]))

RECURSIVE SortIndexKeys(_)
SortIndexKeys(S) ==
    IF S = {} THEN <<>>
    ELSE LET m == CHOOSE x \in S : \A y \in S \ {x} : IndexKeyLess(x, y)
         IN  <<m>> \o SortIndexKeys(S \ {m})

\* {"telemetry_name", "telemetry_value"}.issubset(df.columns)
IsLong(t) == HasColumn(t, TELEMETRY_NAME) /\ HasColumn(t, TELEMETRY_VALUE)

\* idx_cols before the fallback: lap, then timestamp, each if present.
NaturalIdxCols(t) ==
    (IF HasColumn(t, LAP) THEN <<LAP>> ELSE <<>>)
        \o (IF HasColumn(t, TIMESTAMP) THEN <<TIMESTAMP>> ELSE <<>>)

\* df.reset_index().rename(columns={"index": "row"}): a new table whose
\* first column holds the index labels.
WithRowColumn(t) ==
    Table(<<ROW>> \o t.columns,
          [r \in DOMAIN t.rows |-> <<Some(Number(r - 1))>> \o t.rows[r]])

\* pd.to_datetime(..., errors="coerce") on one cell of a table.
to_datetime_cell(cell) ==
    IF cell = NaN THEN NaT
    ELSE CASE Val(cell).kind = "datetime" -> cell
           [] Val(cell).kind = "timetext" -> Some(Datetime(Val(cell).num[1]))
           [] Val(cell).kind = "number" ->
                  Some([kind |-> "datetime", text |-> "", num |-> Val(cell).num])
           [] OTHER -> NaT

\* df["timestamp"] = pd.to_datetime(df["timestamp"], errors="coerce")
ParseTimestampColumn(t) ==
    IF ~HasColumn(t, TIMESTAMP) THEN t
    ELSE Table(t.columns,
               [r \in DOMAIN t.rows |->
                   [t.rows[r] EXCEPT ![ColumnIndex(t, TIMESTAMP)] =
                       to_datetime_cell(@)]])

\* The table the pivot works on: with the row column when there is no
\* natural key, and with its timestamps parsed.
PivotFrame(t) ==
    ParseTimestampColumn(IF NaturalIdxCols(t) = <<>> THEN WithRowColumn(t) ELSE t)

idx_cols(t) == IF NaturalIdxCols(t) = <<>> THEN <<ROW>> ELSE NaturalIdxCols(t)

KeyCells(t, r, cols) == [i \in DOMAIN cols |-> CellAt(t, r, cols[i])]

\* pivot_table groups by index + columns with dropna=True: a row with a
\* missing key cell or a missing channel name is in no group.
Grouped(f, cols) ==
    {r \in DOMAIN f.rows : \A i \in DOMAIN cols : KeyCells(f, r, cols)[i] # NaN}

RECURSIVE SumValues(_, _)
SumValues(f, rows) ==
    IF rows = {} THEN <<0, 1>>
    ELSE LET r == CHOOSE x \in rows : TRUE
         IN  FracAdd(Val(CellAt(f, r, TELEMETRY_VALUE)).num,
                     SumValues(f, rows \ {r}))

\* Variant: aggfunc="sum".
GroupSum(f, cols, k) ==
    LET members == {r \in Grouped(f, cols) :
                       /\ KeyCells(f, r, cols) = k
                       /\ CellAt(f, r, TELEMETRY_VALUE) # NaN}
    IN  IF members = {} THEN NaN
        ELSE Some(Fraction(SumValues(f, members)))

\* aggfunc="mean" of one group: the mean of its non-missing values, missing
\* when it has none.
GroupMean(f, cols, k) ==
    LET members == {r \in Grouped(f, cols) :
                       /\ KeyCells(f, r, cols) = k
                       /\ CellAt(f, r, TELEMETRY_VALUE) # NaN}
    IN  IF members = {} THEN NaN
        ELSE Some(Fraction(FracDiv(SumValues(f, members), Cardinality(members))))

\* agged.dropna(how="all"): the groups whose mean is not missing.
SurvivingGroups(f, cols) ==
    {k \in {KeyCells(f, r, cols) : r \in Grouped(f, cols)} :
        GroupMean(f, cols, k) # NaN}

\* df.pivot_table(index=idx_cols, columns="telemetry_name",
\*                values="telemetry_value", aggfunc="mean").reset_index()
\* and the labels made strings.
pivot_table(f, idx) ==
    LET cols == idx \o <<TELEMETRY_NAME>>
        groups == SurvivingGroups(f, cols)
        keys == SortIndexKeys({SubSeq(k, 1, Len(idx)) : k \in groups})
        labels == SortScalars({Val(k[Len(cols)]) : k \in groups})
    IN  Table(idx \o [j \in DOMAIN labels |-> Str(labels[j])],
              [i \in DOMAIN keys |->
                  keys[i] \o
                  [j \in DOMAIN labels |->
                      IF (keys[i] \o <<Some(labels[j])>>) \in groups
                      THEN GroupMean(f, cols, keys[i] \o <<Some(labels[j])>>)
                      ELSE NaN]])

NotPivoted == [done |-> FALSE, raised |-> FALSE, table |-> Table(<<>>, <<>>)]
Returned(t) == [done |-> TRUE, raised |-> FALSE, table |-> t]
Raised == [done |-> TRUE, raised |-> TRUE, table |-> Table(<<>>, <<>>)]

\* The fallback renames the reset index to "row"; on a table that already
\* has a column "row" the label is then double and pivot_table cannot group
\* by it.
RowLabelCollides(t) == NaturalIdxCols(t) = <<>> /\ HasColumn(t, ROW)

\* The outcome of pivot_trd_long_to_wide(t).
pivot_trd_long_to_wide(t) ==
    IF ~IsLong(t) THEN Returned(t)
    ELSE IF RowLabelCollides(t) THEN Raised
    ELSE Returned(pivot_table(PivotFrame(t), idx_cols(t)))

\* The caller's table after the call: its timestamp column is overwritten
\* in place when the table is long and has one.
ArgumentAfterPivot(t) ==
    IF IsLong(t) THEN ParseTimestampColumn(t) ELSE t

---------------------------------------------------------------------------
(* Column roles and the session (utils/loader.py)                          *)

None == {}

\* The roles of guess_columns with their candidate names, in the order of
\* the lists.
Candidates ==
    [speed_col |-> <<"VBOX_Speed", "Speed", "speed">>,
     throttle_col |-> <<"aps", "Throttle", "throttle">>,
     brake_col |-> <<"pbrake_f", "Brake", "brake", "pbrake_r">>,
     lat_col |-> <<"VBOX_Lat_Min", "Latitude", "lat">>,
     lon_col |-> <<"VBOX_Long_Minutes", "Longitude", "lon">>,
     lap_id_col |-> <<"lap", "Lap">>]

\* Variant: the last candidate that is a column instead of the first.
RECURSIVE pickLast(_, _)
pickLast(cols, candidates) ==
    IF candidates = <<>> THEN None
    ELSE IF \E i \in DOMAIN cols : cols[i] = Text(candidates[Len(candidates)])
         THEN Some(candidates[Len(candidates)])
         ELSE pickLast(cols, SubSeq(candidates, 1, Len(candidates) - 1))

\* pick: the first candidate that is one of the column labels, else None.
RECURSIVE pick(_, _)
pick(cols, candidates) ==
    IF candidates = <<>> THEN None
    ELSE IF \E i \in DOMAIN cols : cols[i] = Text(Head(candidates))
         THEN Some(Head(candidates))
         ELSE pick(cols, Tail(candidates))

guess_columns(t) ==
    [role \in DOMAIN Candidates |-> pick(t.columns, Candidates[role])]

\* Variant: st.session_state["mapping"].update(...) with the roles found,
\* so that a role the new table lacks keeps its old column.
StoreMappingMerged(state, mapping) ==
    IF state = {} THEN {mapping}
    ELSE {[role \in DOMAIN mapping |->
              IF mapping[role] = None THEN Val(state)[role] ELSE mapping[role]]}

\* st.session_state["mapping"] = mapping
StoreMapping(state, mapping) == {mapping}

\* The page scripts that get their table from sidebar_data_selector, and
\* those that read their data themselves and never touch the mapping.
SelectorPages == {"app", "04_Clustering", "05_Gazoo_AI_Race_Engineer"}
OtherPages ==
    {"Home", "02_Telemetry_and_Track", "03_Regression_and_Classification",
     "04_Clustering_Telemetry"}

NoPage == [name |-> "", df |-> {}]
\* A page script that ended (st.stop() or an exception) before
\* sidebar_data_selector returned, or that never calls it.
WithoutTable(p) == [name |-> p, df |-> {}]
WithTable(p, t) == [name |-> p, df |-> {t}]

\* What the sidebar offers: no file (the upload choice with nothing
\* uploaded), or a CSV that was read into a table.
NoFile == [given |-> FALSE, table |-> Table(<<>>, <<>>)]
Csv(t) == [given |-> TRUE, table |-> t]

\* load_and_pivot_any: st.stop() without a source, else the pivot of the
\* table read.
load_and_pivot_any(source) ==
    IF ~source.given THEN NotPivoted ELSE pivot_trd_long_to_wide(source.table)

\* sidebar_data_selector reaches its last three lines.
SelectorReturns(source) ==
    load_and_pivot_any(source).done /\ ~load_and_pivot_any(source).raised

SessionIdle ==
    /\ session_state = {}
    /\ page = NoPage
    /\ loaded = <<>>
    /\ csv = Table(<<>>, <<>>)

---------------------------------------------------------------------------
(* Feature matrix builder (utils/loader.py)                                *)
(*                                                                         *)
(* The floats inf and -inf are the numbers <<1, 0>> and <<-1, 0>>.         *)

Inf == [kind |-> "number", text |-> "", num |-> <<1, 0>>]
NegInf == [kind |-> "number", text |-> "", num |-> <<-1, 0>>]

ColumnCells(t, c) == [r \in DOMAIN t.rows |-> CellAt(t, r, c)]

\* The dtype of a column as read_csv infers it: numeric when it has rows
\* and every cell is a number or missing.
IsNumeric(t, c) ==
    /\ t.rows # <<>>
    /\ \A r \in DOMAIN t.rows :
          CellAt(t, r, c) = NaN \/ Val(CellAt(t, r, c)).kind = "number"

\* df.select_dtypes(include=[np.number]).columns
NumericColumns(t) == SelectSeq(t.columns, LAMBDA c : IsNumeric(t, c))

\* Variant: only the target is left out of the features.
FeatureColsKeepDropped(t, target, drop) ==
    SelectSeq(NumericColumns(t), LAMBDA c : c # target)

\* [c for c in numeric_df.columns if c not in drop_cols + [target_col]]
FeatureCols(t, target, drop) ==
    SelectSeq(NumericColumns(t), LAMBDA c : c \notin (drop \cup {target}))

IsInf(cell) ==
    cell # NaN /\ Val(cell).kind = "number" /\ Val(cell).num[2] = 0

\* .replace([np.inf, -np.inf], np.nan) on one column.
replace_inf(cells) ==
    [i \in DOMAIN cells |-> IF IsInf(cells[i]) THEN NaN ELSE cells[i]]

\* .fillna(method="ffill"): a missing cell takes the last value before it.
RECURSIVE ffill(_)
ffill(cells) ==
    IF cells = <<>> THEN <<>>
    ELSE LET front == ffill(SubSeq(cells, 1, Len(cells) - 1))
             last == cells[Len(cells)]
         IN  Append(front, IF last # NaN THEN last
                           ELSE IF front = <<>> THEN NaN
                           ELSE front[Len(front)])

\* .fillna(method="bfill"): a missing cell takes the next value after it.
RECURSIVE bfill(_)
bfill(cells) ==
    IF cells = <<>> THEN <<>>
    ELSE LET rest == bfill(Tail(cells))
         IN  <<IF Head(cells) # NaN THEN Head(cells)
               ELSE IF rest = <<>> THEN NaN
               ELSE rest[1]>> \o rest

\* Variant: bfill before ffill.
CleanColumnBackFirst(cells) == ffill(bfill(replace_inf(cells)))

\* .replace([np.inf, -np.inf], np.nan).fillna(method="ffill")
\*                                    .fillna(method="bfill")
CleanColumn(cells) == bfill(ffill(replace_inf(cells)))

\* Variant: df[target_col] with the infinities replaced but not filled.
TargetSeriesUnfilled(t, target) == replace_inf(ColumnCells(t, target))

\* y = df[target_col].replace([np.inf, -np.inf], np.nan)
\* y = y.fillna(method="ffill").fillna(method="bfill")
TargetSeries(t, target) == CleanColumn(ColumnCells(t, target))

\* Variant: no mask, every row counts as valid.
ValidRowsAll(y) == DOMAIN y

\* The positions (from 1) of the rows with y.notna().
ValidRows(y) == {r \in DOMAIN y : y[r] # NaN}

\* frame.loc[valid] on a sequence of rows or cells.
RECURSIVE Loc(_, _, _)
Loc(seq, valid, r) ==
    IF r > Len(seq) THEN <<>>
    ELSE (IF r \in valid THEN <<seq[r]>> ELSE <<>>) \o Loc(seq, valid, r + 1)

NotBuilt == [status |-> "not_run", X |-> Table(<<>>, <<>>), y |-> <<>>,
             feature_cols |-> <<>>, index |-> <<>>, y_index |-> <<>>]
KeyError == [status |-> "KeyError", X |-> Table(<<>>, <<>>), y |-> <<>>,
             feature_cols |-> <<>>, index |-> <<>>, y_index |-> <<>>]

\* build_ml_matrices(t, target, drop): X with its columns and rows, y, the
\* feature columns, and the index labels (row ordinals from 0) that X
\* (index) and y (y_index) keep.
\* df[target_col] raises KeyError for a label that is not a column.
build_ml_matrices(t, target, drop) ==
    IF ~HasColumn(t, target) THEN KeyError
    ELSE LET feature_cols == FeatureCols(t, target, drop)
             filled == [j \in DOMAIN feature_cols |->
                           CleanColumn(ColumnCells(t, feature_cols[j]))]
             y == TargetSeries(t, target)
             valid == ValidRows(y)
             rows == [r \in DOMAIN t.rows |->
                         [j \in DOMAIN feature_cols |-> filled[j][r]]]
         IN  [status |-> "ok",
              X |-> Table(feature_cols, Loc(rows, valid, 1)),
              y |-> Loc(y, valid, 1),
              feature_cols |-> feature_cols,
              index |-> Loc([r \in DOMAIN t.rows |-> r - 1], valid, 1),
              y_index |-> Loc([r \in DOMAIN y |-> r - 1], valid, 1)]

---------------------------------------------------------------------------
(* Numeric coercion and fast/slow labeler (data_utils.py)                  *)

\* Text that spells the number n.
NumText(n) == [kind |-> "numtext", text |-> "", num |-> <<n, 1>>]

IsText(v) == v.kind \in {"text", "numtext", "timetext"}

\* A label that heads more than one column.
HasDuplicateLabels(t) ==
    \E i, j \in DOMAIN t.columns : i # j /\ t.columns[i] = t.columns[j]

\* df[col].dtype == "object" for the column at position j: a column that
\* holds text.
IsObject(t, j) ==
    \E r \in DOMAIN t.rows : \E v \in t.rows[r][j] : IsText(v)

\* pd.to_numeric accepts the cell: missing, a number, or text that spells
\* a number.
Parses(cell) == \A v \in cell : v.kind \in {"number", "numtext"}

\* pd.to_numeric on one cell that parses.
to_numeric(cell) == {Fraction(v.num) : v \in cell}

\* The cell at row r, position j after the loop of clean_numeric: converted
\* when the column is an object column and pd.to_numeric did not raise.
CoercedCell(t, r, j) ==
    IF IsObject(t, j) /\ \A q \in DOMAIN t.rows : Parses(t.rows[q][j])
    THEN to_numeric(t.rows[r][j])
    ELSE t.rows[r][j]

\* df.dropna(axis=1, how="all"): the positions of the columns with a
\* non-missing cell.
KeptColumns(t) ==
    {j \in DOMAIN t.columns : \E r \in DOMAIN t.rows : CoercedCell(t, r, j) # NaN}

\* The increasing sequence of the elements of a set of positions.
RECURSIVE Ascending(_)
Ascending(S) ==
    IF S = {} THEN <<>>
    ELSE LET m == CHOOSE x \in S : \A y \in S : x <= y
         IN  <<m>> \o Ascending(S \ {m})

NotCleaned == [status |-> "not_run", table |-> Table(<<>>, <<>>)]
AttributeError == [status |-> "AttributeError", table |-> Table(<<>>, <<>>)]

\* clean_numeric(t).  With a label that heads two columns df[col] is a
\* DataFrame, which has no attribute dtype: line 20 raises, outside the try.
clean_numeric(t) ==
    IF HasDuplicateLabels(t) THEN AttributeError
    ELSE LET kept == Ascending(KeptColumns(t))
         IN  [status |-> "ok",
              table |-> Table([i \in DOMAIN kept |-> t.columns[kept[i]]],
                              [r \in DOMAIN t.rows |->
                                  [i \in DOMAIN kept |-> CoercedCell(t, r, kept[i])]])]

\* df = df.copy() (line 18): the caller's table after clean_numeric.
ArgumentAfterClean(t) == t

\* The threshold argument: the literal "median", a number, or other text.
Median == [kind |-> "text", text |-> "median", num |-> <<0, 0>>]

\* The non-missing values (fractions) of a column, in row order.
Present(cells) ==
    LET some == SelectSeq(cells, LAMBDA c : c # NaN)
    IN  [i \in DOMAIN some |-> Val(some[i]).num]

\* Insert fraction x into the ascending sequence q.
RECURSIVE InsertNum(_, _)
InsertNum(q, x) ==
    IF q = <<>> THEN <<x>>
    ELSE IF FracLess(x, Head(q)) THEN <<x>> \o q
    ELSE <<Head(q)>> \o InsertNum(Tail(q), x)

RECURSIVE SortNums(_)
SortNums(q) ==
    IF q = <<>> THEN <<>> ELSE InsertNum(SortNums(Tail(q)), Head(q))

\* Variant: the mean of the column.
RECURSIVE SumNums(_)
SumNums(q) == IF q = <<>> THEN <<0, 1>> ELSE FracAdd(Head(q), SumNums(Tail(q)))
mean(cells) ==
    IF Present(cells) = <<>> THEN NaN
    ELSE Some(FracDiv(SumNums(Present(cells)), Len(Present(cells))))

\* Series.median(): missing values skipped; the middle value, or the mean
\* of the two middle values; missing for a column without values.
median(cells) ==
    LET q == SortNums(Present(cells))
        n == Len(q)
    IN  IF n = 0 THEN NaN
        ELSE IF n % 2 = 1 THEN Some(q[(n + 1) \div 2])
        ELSE Some(FracDiv(FracAdd(q[n \div 2], q[n \div 2 + 1]), 2))

\* thr_value: df[target_col].median() or float(threshold).
thr_value(cells, threshold) ==
    IF threshold = Median THEN median(cells) ELSE Some(threshold.num)

\* Variant: <= instead of <.
LabelOfInclusive(cell, thr) ==
    IF cell # NaN /\ thr # NaN /\ ~FracLess(Val(thr), Val(cell).num)
    THEN Some(Number(1)) ELSE Some(Number(0))

\* (df[target_col] < thr_value).astype(int) on one cell: a comparison with
\* a missing value is False.
LabelOf(cell, thr) ==
    IF cell # NaN /\ thr # NaN /\ FracLess(Val(cell).num, Val(thr))
    THEN Some(Number(1)) ELSE Some(Number(0))

\* df[label_col] = values: an existing column is overwritten in place, a
\* new one is appended.
WithColumn(t, label, values) ==
    IF HasColumn(t, label)
    THEN Table(t.columns,
               [r \in DOMAIN t.rows |->
                   [t.rows[r] EXCEPT ![ColumnIndex(t, label)] = values[r]]])
    ELSE Table(Append(t.columns, label),
               [r \in DOMAIN t.rows |-> Append(t.rows[r], values[r])])

NotLabelled == [status |-> "not_run", table |-> Table(<<>>, <<>>)]
ValueError == [status |-> "ValueError", table |-> Table(<<>>, <<>>)]
TypeError == [status |-> "TypeError", table |-> Table(<<>>, <<>>)]

\* Variant: a missing target column is labelled as a column without
\* values instead of being rejected.
add_fast_slow_label_unchecked(t, target, label, threshold) ==
    [status |-> "ok",
     table |-> WithColumn(t, label, [r \in DOMAIN t.rows |-> Some(Number(0))])]

\* add_fast_slow_label(t, target, label, threshold).  ValueError for a
\* missing target column and for a threshold float() rejects; TypeError
\* when the target column holds text (median and < are not defined on it).
add_fast_slow_label(t, target, label, threshold) ==
    IF ~HasColumn(t, target) THEN ValueError
    ELSE IF threshold # Median /\ threshold.kind # "number" THEN ValueError
    ELSE IF \E r \in DOMAIN t.rows : \E v \in CellAt(t, r, target) : IsText(v)
         THEN TypeError
    ELSE LET cells == ColumnCells(t, target)
             thr == thr_value(cells, threshold)
         IN  [status |-> "ok",
              table |-> WithColumn(t, label,
                            [r \in DOMAIN t.rows |-> LabelOf(cells[r], thr)])]

\* Variant: no copy, the label column is written into the caller's table.
ArgumentAfterLabelInPlace(t, target, label, threshold) ==
    IF add_fast_slow_label(t, target, label, threshold).status = "ok"
    THEN add_fast_slow_label(t, target, label, threshold).table
    ELSE t

\* df = df.copy() (line 43): the caller's table after add_fast_slow_label.
ArgumentAfterLabel(t, target, label, threshold) == t

\* numeric_df is a copy and replace / fillna return new objects: the
\* caller's table after build_ml_matrices.
ArgumentAfterBuild(t) == t

CleanIdle == raw_df = Table(<<>>, <<>>) /\ clean_out = NotCleaned

LabelIdle ==
    /\ lab_df = Table(<<>>, <<>>)
    /\ lab_target = Text("")
    /\ lab_label = Text("")
    /\ lab_threshold = Median
    /\ lab_out = NotLabelled

MlIdle ==
    /\ ml_df = Table(<<>>, <<>>)
    /\ target_col = Text("")
    /\ drop_cols = {}
    /\ ml_out = NotBuilt

---------------------------------------------------------------------------
(* Inputs                                                                  *)

\* Four lap identities <<lap, vehicle_id, vehicle_number, outing>>: P and Q
\* differ in vehicle and lap, R is P with a missing outing, S is P in
\* another outing.
IdP == <<Some(2), Some(1), Some(7), Some(1)>>
IdQ == <<Some(1), Some(2), Some(8), Some(1)>>
IdR == <<Some(2), Some(1), Some(7), NaN>>
IdS == <<Some(2), Some(1), Some(7), Some(2)>>

Identities == {IdP, IdQ, IdR, IdS}

Ev(id, raw) == Event(id[1], id[2], id[3], id[4], raw)

StartEvents ==
    {Ev(IdP, RawStamp(100000)), Ev(IdP, RawStamp(100200)), Ev(IdP, Garbage),
     Ev(IdQ, RawStamp(100000)), Ev(IdR, RawStamp(100000)),
     Ev(IdS, RawStamp(100000))}

EndEvents ==
    {Ev(IdP, RawStamp(ms)) :
        ms \in {100000, 101000, 174999, 175000, 195000, 499999, 500000}}
    \cup {Ev(IdP, Garbage), Ev(IdQ, RawStamp(195000)),
          Ev(IdR, RawStamp(195000)), Ev(IdS, RawStamp(195000))}

TimeEvents ==
    {Ev(IdP, RawStamp(196000)), Ev(IdP, RawStamp(197000)), Ev(IdP, Garbage),
     Ev(IdR, RawStamp(196000))}

File(rows) == [exists |-> TRUE, rows |-> rows]
Absent == [exists |-> FALSE, rows |-> <<>>]

Tables(events, n) == [1..n -> events]

Init ==
    /\ \E a, b, c \in 0..MaxFileRows :
          /\ a + b + c <= MaxRows
          /\ start_file \in {Absent} \cup {File(t) : t \in Tables(StartEvents, a)}
          /\ end_file \in {Absent} \cup {File(t) : t \in Tables(EndEvents, b)}
          /\ time_file \in {Absent} \cup {File(t) : t \in Tables(TimeEvents, c)}
    /\ lap_merged = <<>>
    /\ lap_summary = NotRun
    /\ df = Table(<<>>, <<>>)
    /\ wide = NotPivoted
    /\ wide_again = NotPivoted
    /\ SessionIdle
    /\ MlIdle
    /\ CleanIdle
    /\ LabelIdle

\* One run of the page: build_r1_lap_summary().
BuildR1LapSummary ==
    /\ lap_summary = NotRun
    /\ lap_merged' = IF MissingFiles # {} THEN <<>>
                     ELSE MergeAggregates(start_file.rows, end_file.rows,
                                          time_file.rows)
    /\ lap_summary' = build_r1_lap_summary
    /\ UNCHANGED <<start_file, end_file, time_file>>
    /\ UNCHANGED <<pivot_vars, session_vars, ml_vars, clean_vars, label_vars>>

Next == BuildR1LapSummary

Spec == Init /\ [][Next]_vars

\* Lap files that all exist, over a few events of two identities: the
\* inputs for comparing a run with the runs on rearranged files.
FewStartEvents ==
    {Ev(IdP, RawStamp(100000)), Ev(IdP, RawStamp(100200)),
     Ev(IdQ, RawStamp(100000))}
FewEndEvents ==
    {Ev(IdP, RawStamp(195000)), Ev(IdP, RawStamp(175000)),
     Ev(IdQ, RawStamp(195000))}
FewTimeEvents == {Ev(IdP, RawStamp(196000)), Ev(IdP, RawStamp(197000))}

InitFew ==
    /\ \E a, b, c \in 0..MaxFileRows :
          /\ a + b + c <= MaxRows
          /\ start_file \in {File(t) : t \in Tables(FewStartEvents, a)}
          /\ end_file \in {File(t) : t \in Tables(FewEndEvents, b)}
          /\ time_file \in {File(t) : t \in Tables(FewTimeEvents, c)}
    /\ lap_merged = <<>>
    /\ lap_summary = NotRun
    /\ df = Table(<<>>, <<>>)
    /\ wide = NotPivoted
    /\ wide_again = NotPivoted
    /\ SessionIdle
    /\ MlIdle
    /\ CleanIdle
    /\ LabelIdle

SpecFew == InitFew /\ [][Next]_vars

---------------------------------------------------------------------------
(* Inputs of the pivot                                                     *)

LapCells == {Some(Number(1)), Some(Number(2))}
TimeCells == {Some(TimeText(1000)), Some(TimeText(2000))}
NameCells ==
    {Some(Text("speed")), Some(TELEMETRY_NAME), Some(TELEMETRY_VALUE), NaN}
ValueCells == {Some(Number(10)), Some(Number(20)), NaN}

\* The TRD long layout with both keys.
LongLapTimeRows ==
    {<<l, t, n, v>> : l \in LapCells, t \in TimeCells,
                      n \in NameCells, v \in ValueCells}
\* Long, keyed by lap only.
LongLapRows ==
    {<<l, n, v>> : l \in LapCells \cup {NaN}, n \in NameCells, v \in ValueCells}
\* Long, keyed by timestamp only.
LongTimeRows ==
    {<<t, n, v>> : t \in TimeCells \cup {Some(Text("garbage"))},
                   n \in NameCells, v \in ValueCells}
\* Long, without a natural key.
LongBareRows == {<<n, v>> : n \in NameCells, v \in ValueCells}
\* Wide already.
WideRows == {<<l, v>> : l \in LapCells, v \in ValueCells}

\* The layouts of the tables handed to the pivot: the column labels and
\* the rows a table of that layout may hold.
Layouts ==
    {[columns |-> <<LAP, TIMESTAMP, TELEMETRY_NAME, TELEMETRY_VALUE>>,
      rowset |-> LongLapTimeRows],
     [columns |-> <<LAP, TELEMETRY_NAME, TELEMETRY_VALUE>>,
      rowset |-> LongLapRows],
     [columns |-> <<TIMESTAMP, TELEMETRY_NAME, TELEMETRY_VALUE>>,
      rowset |-> LongTimeRows],
     [columns |-> <<TELEMETRY_NAME, TELEMETRY_VALUE>>,
      rowset |-> LongBareRows],
     [columns |-> <<LAP, Text("speed")>>,
      rowset |-> WideRows]}

InitPivot ==
    /\ start_file = Absent
    /\ end_file = Absent
    /\ time_file = Absent
    /\ lap_merged = <<>>
    /\ lap_summary = NotRun
    /\ \E layout \in Layouts : \E n \in 1..MaxTableRows :
       \E rows \in [1..n -> layout.rowset] :
          df = Table(layout.columns, rows)
    /\ wide = NotPivoted
    /\ wide_again = NotPivoted
    /\ SessionIdle
    /\ MlIdle
    /\ CleanIdle
    /\ LabelIdle

\* wide = pivot_trd_long_to_wide(df)
PivotLongToWide ==
    /\ ~wide.done
    /\ wide' = pivot_trd_long_to_wide(df)
    /\ df' = ArgumentAfterPivot(df)
    /\ UNCHANGED wide_again
    /\ UNCHANGED <<lap_vars, session_vars, ml_vars, clean_vars, label_vars>>

\* The pivot applied to its own output.
PivotAgain ==
    /\ wide.done
    /\ ~wide.raised
    /\ ~wide_again.done
    /\ wide_again' = pivot_trd_long_to_wide(wide.table)
    /\ wide' = Returned(ArgumentAfterPivot(wide.table))
    /\ UNCHANGED df
    /\ UNCHANGED <<lap_vars, session_vars, ml_vars, clean_vars, label_vars>>

NextPivot == PivotLongToWide \/ PivotAgain

SpecPivot == InitPivot /\ [][NextPivot]_vars

---------------------------------------------------------------------------
(* A session of page runs                                                  *)

LapIdle ==
    /\ start_file = Absent
    /\ end_file = Absent
    /\ time_file = Absent
    /\ lap_merged = <<>>
    /\ lap_summary = NotRun

PivotIdle == df = Table(<<>>, <<>>) /\ wide = NotPivoted /\ wide_again = NotPivoted

\* Column labels of the wide CSV files on offer.
SessionLabels == <<Text("VBOX_Speed"), Text("Speed"), Text("speed"), LAP>>

\* A wide CSV with the labels S (in file order) and one row of numbers.
WideCsv(S) ==
    LET cols == SelectSeq(SessionLabels, LAMBDA c : c \in S)
    IN  Table(cols, <<[j \in DOMAIN cols |-> Some(Number(1))]>>)

\* Long CSV files: one that pivots to lap, timestamp, aps, speed and one
\* whose fallback key collides with its own column "row".
LongCsvs ==
    {Table(<<LAP, TIMESTAMP, TELEMETRY_NAME, TELEMETRY_VALUE>>,
           <<<<Some(Number(1)), Some(TimeText(1000)), Some(Text("speed")),
               Some(Number(10))>>,
             <<Some(Number(1)), Some(TimeText(1000)), Some(Text("aps")),
               Some(Number(20))>>>>),
     Table(<<ROW, TELEMETRY_NAME, TELEMETRY_VALUE>>,
           <<<<Some(Number(1)), Some(Text("speed")), Some(Number(10))>>>>)}

\* A wide CSV whose speed column is empty in every row.
EmptySpeedCsv == Table(<<Text("speed"), LAP>>, <<<<NaN, Some(Number(1))>>>>)

SessionSources ==
    {NoFile}
        \cup {Csv(WideCsv(S)) :
                 S \in (SUBSET {SessionLabels[i] : i \in DOMAIN SessionLabels}) \ {{}}}
        \cup {Csv(t) : t \in LongCsvs}
        \cup {Csv(EmptySpeedCsv)}

InitSession ==
    LapIdle /\ PivotIdle /\ SessionIdle /\ MlIdle /\ CleanIdle /\ LabelIdle

\* The user opens (or reruns) a page whose script starts with
\* df = loader.sidebar_data_selector().  When load_and_pivot_any stops the
\* script or raises, the assignment to st.session_state is not reached.
RunSelectorPage ==
    \E p \in SelectorPages, source \in SessionSources :
        /\ IF SelectorReturns(source)
           THEN LET t == load_and_pivot_any(source).table
                IN  /\ session_state' = StoreMapping(session_state, guess_columns(t))
                    /\ page' = WithTable(p, t)
                    /\ csv' = source.table
                    /\ loaded' = IF Len(loaded) < 2 THEN Append(loaded, t)
                                 ELSE <<loaded[2], t>>
           ELSE /\ page' = WithoutTable(p)
                /\ UNCHANGED <<session_state, loaded, csv>>
        /\ UNCHANGED <<lap_vars, pivot_vars, ml_vars, clean_vars, label_vars>>

\* The user opens a page that reads its data itself.
RunOtherPage ==
    \E p \in OtherPages :
        /\ page' = WithoutTable(p)
        /\ UNCHANGED <<session_state, loaded, csv>>
        /\ UNCHANGED <<lap_vars, pivot_vars, ml_vars, clean_vars, label_vars>>

NextSession == RunSelectorPage \/ RunOtherPage

SpecSession == InitSession /\ [][NextSession]_vars

---------------------------------------------------------------------------
(* Inputs of the feature matrix builder                                    *)

\* Number of rows (samples) of the table handed to build_ml_matrices.
MaxSamples == 3

F1 == Text("f1")
F2 == Text("f2")
F3 == Text("f3")
TARGET == Text("lap_time")
DRIVER == Text("driver")

\* lap, three more numeric columns, a target and a text column.  f1 or
\* the target varies from row to row (the other is then the same in every
\* row); lap counts the rows, f2 is constant and f3 is empty.
MlColumns == <<LAP, F1, F2, F3, TARGET, DRIVER>>
FeatureCells ==
    {NaN, Some(Number(1)), Some(Number(2)), Some(Inf), Some(NegInf)}
TargetCells ==
    {NaN, Some(Number(90)), Some(Number(95)), Some(Inf), Some(NegInf)}

MlRow(r, f, y) ==
    <<Some(Number(r)), f, Some(Number(3)), NaN, y, Some(Text("speed"))>>

MlTargets == {TARGET, DRIVER, Text("telemetry_value")}
MlDrops == {{}, {LAP}, {LAP, F2}}

InitMl ==
    /\ LapIdle
    /\ PivotIdle
    /\ SessionIdle
    /\ CleanIdle
    /\ LabelIdle
    /\ \E n \in 1..MaxSamples :
       \E f \in [1..n -> FeatureCells], y \in [1..n -> TargetCells] :
          /\ (\A r \in 1..n : f[r] = f[1]) \/ (\A r \in 1..n : y[r] = y[1])
          /\ ml_df = Table(MlColumns, [r \in 1..n |-> MlRow(r, f[r], y[r])])
    /\ target_col \in MlTargets
    /\ drop_cols \in MlDrops
    /\ ml_out = NotBuilt

\* X, y, feature_cols = build_ml_matrices(df, target_col, drop_cols)
BuildMlMatrices ==
    /\ ml_df.columns # <<>>
    /\ ml_out = NotBuilt
    /\ ml_out' = build_ml_matrices(ml_df, target_col, drop_cols)
    /\ ml_df' = ArgumentAfterBuild(ml_df)
    /\ UNCHANGED <<target_col, drop_cols>>
    /\ UNCHANGED <<lap_vars, pivot_vars, session_vars, clean_vars, label_vars>>

NextMl == BuildMlMatrices

SpecMl == InitMl /\ [][NextMl]_vars

---------------------------------------------------------------------------
(* Numeric coercion inputs: two columns of numbers, numeric text, other    *)
(* text and missing values, under two distinct labels or under one label   *)
(* that heads both columns.                                                *)

CleanLayouts == {<<Text("a"), Text("b")>>, <<Text("a"), Text("a")>>}

CleanCells == {NaN, Some(Number(1)), Some(NumText(2)), Some(Text("x"))}

InitClean ==
    /\ LapIdle
    /\ PivotIdle
    /\ SessionIdle
    /\ MlIdle
    /\ LabelIdle
    /\ \E layout \in CleanLayouts :
       \E n \in 1..MaxTableRows :
       \E rows \in [1..n -> [1..2 -> CleanCells]] :
          raw_df = Table(layout, rows)
    /\ clean_out = NotCleaned

\* df = clean_numeric(df_raw)
CleanNumeric ==
    /\ raw_df.columns # <<>>
    /\ clean_out = NotCleaned
    /\ clean_out' = clean_numeric(raw_df)
    /\ raw_df' = ArgumentAfterClean(raw_df)
    /\ UNCHANGED <<lap_vars, pivot_vars, session_vars, ml_vars, label_vars>>

NextClean == CleanNumeric

SpecClean == InitClean /\ [][NextClean]_vars

---------------------------------------------------------------------------
(* Labeler inputs: a lap table whose lap_time column holds 10, 30 or a     *)
(* missing value in each row, or 10, 20, ..., 10n; the target names        *)
(* lap_time, the text column driver or a column the table lacks; the label *)
(* is a new column or the existing column lap; the threshold is "median",  *)
(* a number, or text float() rejects.                                      *)

MaxLaps == 5

IS_FAST_LAP == Text("is_fast_lap")

LabelColumns == <<LAP, TARGET, DRIVER>>

LapTimes == {NaN, Some(Number(10)), Some(Number(30))}

LabelTargets == {TARGET, DRIVER, Text("sector_time")}

LabelLabels == {IS_FAST_LAP, LAP}

Thresholds == {Median, Number(30), Text("fast")}

InitLabel ==
    /\ LapIdle
    /\ PivotIdle
    /\ SessionIdle
    /\ MlIdle
    /\ CleanIdle
    /\ \E n \in 1..MaxLaps :
       \E y \in [1..n -> LapTimes] \cup {[r \in 1..n |-> Some(Number(10 * r))]} :
          lab_df = Table(LabelColumns,
                         [r \in 1..n |-> <<Some(Number(r)), y[r], Some(Text("d1"))>>])
    /\ lab_target \in LabelTargets
    /\ lab_label \in LabelLabels
    /\ lab_threshold \in Thresholds
    /\ lab_out = NotLabelled

\* df = add_fast_slow_label(df, target_col, label_col, threshold)
AddFastSlowLabel ==
    /\ lab_df.columns # <<>>
    /\ lab_out = NotLabelled
    /\ lab_out' = add_fast_slow_label(lab_df, lab_target, lab_label, lab_threshold)
    /\ lab_df' = ArgumentAfterLabel(lab_df, lab_target, lab_label, lab_threshold)
    /\ UNCHANGED <<lab_target, lab_label, lab_threshold>>
    /\ UNCHANGED <<lap_vars, pivot_vars, session_vars, ml_vars, clean_vars>>

NextLabel == AddFastSlowLabel

SpecLabel == InitLabel /\ [][NextLabel]_vars

---------------------------------------------------------------------------
(* The three table functions together: one of them is called on its        *)
(* inputs.                                                                 *)

InitFrames == InitClean \/ InitLabel \/ InitMl

NextFrames == CleanNumeric \/ AddFastSlowLabel \/ BuildMlMatrices

SpecFrames == InitFrames /\ [][NextFrames]_vars

---------------------------------------------------------------------------
(* Vocabulary of the lap-summary properties, read off the event files      *)

Built == lap_summary.status = "ok"

RowKey(r) == <<r.lap, r.vehicle_id, r.vehicle_number, r.outing>>

\* The rows of the summary (by position) that carry identity k.
RowsOf(k) == {i \in DOMAIN lap_summary.rows : RowKey(lap_summary.rows[i]) = k}

\* The rows of a lap file that are events of identity k.
EventsOf(file, k) == {i \in DOMAIN file.rows : KeyOf(file.rows[i]) = k}

\* The instants of the events of identity k whose timestamp text parses.
StampsOf(file, k) ==
    {file.rows[i].timestamp.ms :
        i \in {j \in EventsOf(file, k) : file.rows[j].timestamp.parses}}

Least(S) == CHOOSE m \in S : \A x \in S : m <= x
Greatest(S) == CHOOSE m \in S : \A x \in S : m >= x

\* Identity k has a usable start and a usable end, and end minus start lies
\* in the plausibility band.
Plausible(k) ==
    /\ StampsOf(start_file, k) # {}
    /\ StampsOf(end_file, k) # {}
    /\ LET d == Greatest(StampsOf(end_file, k)) - Least(StampsOf(start_file, k))
       IN  d >= 75000 /\ d < 400000

\* The records of the merged frame whose duration is d milliseconds.
MergedWithDuration(d) ==
    {i \in DOMAIN lap_merged : lap_merged[i].duration_s = Some(d)}

Retained(m) == RowsOf(RowKey(m)) # {}

---------------------------------------------------------------------------
(* C1: every row of the lap summary has 75.0 <= duration_s < 400.0; of the *)
(* merged lap records, one of 74.999 s is dropped, one of 75.0 s is kept,  *)
(* one of 399.999 s is kept, one of 400.0 s is dropped, and one whose      *)
(* duration is missing is dropped.                                         *)
C1_DurationBand ==
    Built =>
        /\ \A i \in DOMAIN lap_summary.rows :
              /\ lap_summary.rows[i].duration_s # NaN
              /\ Val(lap_summary.rows[i].duration_s) >= 75000
              /\ Val(lap_summary.rows[i].duration_s) < 400000
        /\ \A i \in MergedWithDuration(74999) : ~Retained(lap_merged[i])
        /\ \A i \in MergedWithDuration(75000) : Retained(lap_merged[i])
        /\ \A i \in MergedWithDuration(399999) : Retained(lap_merged[i])
        /\ \A i \in MergedWithDuration(400000) : ~Retained(lap_merged[i])
        /\ \A i \in DOMAIN lap_merged :
              lap_merged[i].duration_s = NaN => ~Retained(lap_merged[i])

\* A run that kept a lap of exactly 75.0 s.
C1_Witness ==
    /\ Built
    /\ MergedWithDuration(75000) # {}
    /\ \E i \in DOMAIN lap_summary.rows :
          lap_summary.rows[i].duration_s = Some(75000)

(* C2: for every identity in the lap summary, timestamp_start is the       *)
(* minimum timestamp of its start events, timestamp_end the maximum        *)
(* timestamp of its end events, and duration_s their difference.           *)
C2_MinStartMaxEnd ==
    Built =>
        \A i \in DOMAIN lap_summary.rows :
            LET r == lap_summary.rows[i]
                starts == StampsOf(start_file, RowKey(r))
                ends == StampsOf(end_file, RowKey(r))
            IN  /\ starts # {} /\ ends # {}
                /\ r.timestamp_start = Some(Least(starts))
                /\ r.timestamp_end = Some(Greatest(ends))
                /\ r.duration_s = Some(Greatest(ends) - Least(starts))

\* Duplicate starts at 100.0 and 100.2 with an end at 195.0: start 100.0,
\* end 195.0, duration 95 s, retained.
C2_Witness ==
    /\ Built
    /\ StampsOf(start_file, IdP) = {100000, 100200}
    /\ StampsOf(end_file, IdP) = {195000}
    /\ \E i \in RowsOf(IdP) :
          /\ lap_summary.rows[i].timestamp_start = Some(100000)
          /\ lap_summary.rows[i].timestamp_end = Some(195000)
          /\ lap_summary.rows[i].duration_s = Some(95000)

(* C3: every identity that has a start event and an end event and whose    *)
(* reconciled duration passes the validity filter appears in the lap       *)
(* summary exactly once, also when one of its key components is missing;   *)
(* and no identity appears twice.                                          *)
C3_OneRowPerIdentity ==
    Built =>
        /\ \A k \in Identities : Plausible(k) => Cardinality(RowsOf(k)) = 1
        /\ \A k \in Identities : Cardinality(RowsOf(k)) <= 1

(* C4: an identity with start events but no end event, or with end events  *)
(* but no start event, never appears in the lap summary.                   *)
C4_IntersectionJoin ==
    Built =>
        \A k \in Identities :
            (EventsOf(start_file, k) = {} \/ EventsOf(end_file, k) = {})
                => RowsOf(k) = {}

\* A start event of P without any end event of P, beside a complete lap.
C4_Witness ==
    /\ Built
    /\ EventsOf(start_file, IdP) # {}
    /\ EventsOf(end_file, IdP) = {}
    /\ EventsOf(end_file, IdS) # {}
    /\ RowsOf(IdP) = {}
    /\ lap_summary.rows # <<>>

\* A frame without its timestamp_lap column.
WithoutLapStamp(frame) ==
    [i \in 1..Len(frame) |->
        [f \in DOMAIN frame[i] \ {"timestamp_lap"} |-> frame[i][f]]]

(* C5: the time-mark events neither add nor remove a row of the lap        *)
(* summary (but for timestamp_lap it is the summary of the same start and  *)
(* end events without any time-mark event); an identity without time-mark  *)
(* events has a missing timestamp_lap, and otherwise timestamp_lap is the  *)
(* maximum of its time-mark timestamps.                                    *)
C5_TimeMarkLeftJoin ==
    Built =>
        /\ WithoutLapStamp(lap_summary.rows)
              = WithoutLapStamp(Reconcile(start_file.rows, end_file.rows, <<>>))
        /\ \A i \in DOMAIN lap_summary.rows :
              LET marks == StampsOf(time_file, RowKey(lap_summary.rows[i]))
              IN  lap_summary.rows[i].timestamp_lap
                     = IF marks = {} THEN NaT ELSE Some(Greatest(marks))

\* A retained lap with two time marks, the later one first in the file.
C5_Witness ==
    /\ Built
    /\ Len(time_file.rows) = 2
    /\ time_file.rows[1].timestamp = RawStamp(197000)
    /\ time_file.rows[2].timestamp = RawStamp(196000)
    /\ \E i \in RowsOf(IdP) : lap_summary.rows[i].timestamp_lap = Some(197000)

(* C6: every row of the lap summary has timestamp_end strictly greater     *)
(* than timestamp_start; a merged record with timestamp_end equal to       *)
(* timestamp_start is dropped, and so is one with timestamp_end =          *)
(* timestamp_start + 1 s, which lies outside the duration band.            *)
C6_EndAfterStart ==
    Built =>
        /\ \A i \in DOMAIN lap_summary.rows :
              /\ lap_summary.rows[i].timestamp_start # NaT
              /\ lap_summary.rows[i].timestamp_end # NaT
              /\ Val(lap_summary.rows[i].timestamp_end)
                    > Val(lap_summary.rows[i].timestamp_start)
        /\ \A i \in DOMAIN lap_merged :
              lap_merged[i].timestamp_end = lap_merged[i].timestamp_start
                  => ~Retained(lap_merged[i])

\* A merged record whose end equals its start, beside a retained lap.
C6_Witness ==
    /\ Built
    /\ \E i \in DOMAIN lap_merged :
          /\ lap_merged[i].timestamp_start = Some(100000)
          /\ lap_merged[i].timestamp_end = Some(100000)
    /\ lap_summary.rows # <<>>

SomeFileAbsent ==
    ~start_file.exists \/ ~end_file.exists \/ ~time_file.exists

(* C7: when any of the three lap files is absent, the run fails with       *)
(* FileNotFoundError and yields no lap summary rows, whatever the files    *)
(* that do exist hold.                                                     *)
C7_MissingFileIsFatal ==
    (lap_summary.status # "not_run" /\ SomeFileAbsent)
        => /\ lap_summary.status = "FileNotFoundError"
           /\ lap_summary.rows = <<>>
           /\ lap_merged = <<>>

\* Only the lap-time file is absent, and the other two hold a plausible lap.
C7_Witness ==
    /\ lap_summary.status = "FileNotFoundError"
    /\ start_file.exists /\ end_file.exists /\ ~time_file.exists
    /\ Plausible(IdP)

\* A lap file's rows without those whose timestamp text does not parse.
Parseable(rows) == SelectSeq(rows, LAMBDA e : e.timestamp.parses)

HasGarbage(file) == \E i \in DOMAIN file.rows : ~file.rows[i].timestamp.parses

(* C8: an unparseable timestamp never makes the run fail; the summary is   *)
(* the one the same files give without their unparseable events, so the    *)
(* other events of the identity are still reconciled and the identity is   *)
(* lost only if no usable start or end timestamp is left.                  *)
C8_UnparseableIsMissing ==
    (lap_summary.status # "not_run" /\ ~SomeFileAbsent) =>
        /\ Built
        /\ lap_summary.rows
              = Reconcile(Parseable(start_file.rows), Parseable(end_file.rows),
                          Parseable(time_file.rows))
        /\ \A i \in DOMAIN lap_merged :
              (/\ lap_merged[i].timestamp_start # NaT
               /\ lap_merged[i].timestamp_end # NaT
               /\ lap_merged[i].duration_s # NaN
               /\ Val(lap_merged[i].duration_s) >= 75000
               /\ Val(lap_merged[i].duration_s) < 400000)
                  => Retained(lap_merged[i])

\* P has an unparseable start beside a usable one and is retained.
C8_Witness ==
    /\ Built
    /\ \E i \in EventsOf(start_file, IdP) : ~start_file.rows[i].timestamp.parses
    /\ StampsOf(start_file, IdP) # {}
    /\ HasGarbage(end_file)
    /\ RowsOf(IdP) # {}

(* C9: the lap summary is sorted by (vehicle_id, lap) ascending and its    *)
(* index runs 0..n-1, for any order of the event rows.                     *)
C9_SortedAndReindexed ==
    Built =>
        /\ \A i, j \in DOMAIN lap_summary.rows :
              i < j =>
                 LET a == lap_summary.rows[i]
                     b == lap_summary.rows[j]
                 IN  \/ Val(a.vehicle_id) < Val(b.vehicle_id)
                     \/ /\ a.vehicle_id = b.vehicle_id
                        /\ Val(a.lap) <= Val(b.lap)
        /\ \A i \in DOMAIN lap_summary.rows : lap_summary.rows[i].index = i - 1

\* Vehicle 1 lap 2 sorts before vehicle 2 lap 1, with the events of
\* vehicle 2 first in the files.
C9_Witness ==
    /\ Built
    /\ Len(lap_summary.rows) = 2
    /\ RowKey(lap_summary.rows[1]) = IdP
    /\ RowKey(lap_summary.rows[2]) = IdQ
    /\ KeyOf(start_file.rows[1]) = IdQ

(* C10: the long->wide pivot is idempotent: applied to its own output it   *)
(* returns that output unchanged, also when the long table has channels    *)
(* named telemetry_name and telemetry_value; and an already-wide table is  *)
(* returned unchanged.                                                     *)
C10_PivotIdempotent ==
    /\ wide_again.done => wide_again = Returned(wide.table)
    /\ (wide.done /\ ~IsLong(df)) => wide = Returned(df)


---------------------------------------------------------------------------
(* Vocabulary of the pivot properties, read off the argument df and the    *)
(* result wide of the first call                                           *)

\* The first call has returned a pivoted table.
Pivoted == wide.done /\ ~wide.raised /\ ~wide_again.done /\ IsLong(df)

\* The labels of the argument that key the wide table: lap and timestamp
\* as far as present, else the row ordinal.
KeyLabels ==
    IF HasColumn(df, LAP) \/ HasColumn(df, TIMESTAMP)
    THEN {c \in {LAP, TIMESTAMP} : HasColumn(df, c)}
    ELSE {ROW}

\* The cell of row r of the argument under key label c (the row ordinal is
\* the position of the row, counted from 0).
ArgKeyCell(r, c) == IF c = ROW THEN Some(Number(r - 1)) ELSE CellAt(df, r, c)

WideLabels == {wide.table.columns[j] : j \in DOMAIN wide.table.columns}

\* The rows of the argument that observe channel c under the key of row i
\* of the wide table.
Observations(i, c) ==
    {r \in DOMAIN df.rows :
        /\ CellAt(df, r, TELEMETRY_NAME) = Some(c)
        /\ \A k \in KeyLabels : ArgKeyCell(r, k) = CellAt(wide.table, i, k)}

Measured(i, c) == {r \in Observations(i, c) : CellAt(df, r, TELEMETRY_VALUE) # NaN}

RECURSIVE TotalOf(_)
TotalOf(rows) ==
    IF rows = {} THEN 0
    ELSE LET r == CHOOSE x \in rows : TRUE
         IN  Val(CellAt(df, r, TELEMETRY_VALUE)).num[1] + TotalOf(rows \ {r})

\* The channel names that occur in the argument.
ChannelsSeen ==
    {Val(CellAt(df, r, TELEMETRY_NAME)) :
        r \in {x \in DOMAIN df.rows : CellAt(df, x, TELEMETRY_NAME) # NaN}}

\* The key the pivot is said to select: lap, else timestamp, else the row
\* ordinal.
SingleKey ==
    IF HasColumn(df, LAP) THEN LAP
    ELSE IF HasColumn(df, TIMESTAMP) THEN TIMESTAMP
    ELSE ROW

(* C11: the pivot key is lap if a lap column is present, else timestamp if *)
(* a timestamp column is present, else the synthetic row ordinal, and the  *)
(* wide table has exactly one row per distinct value of that key.          *)
C11_PivotKeySelection ==
    Pivoted =>
        /\ HasColumn(wide.table, SingleKey)
        /\ \A r \in DOMAIN df.rows :
              Cardinality({i \in DOMAIN wide.table.rows :
                  CellAt(wide.table, i, SingleKey) = ArgKeyCell(r, SingleKey)}) = 1
        /\ \A i \in DOMAIN wide.table.rows : \E r \in DOMAIN df.rows :
              CellAt(wide.table, i, SingleKey) = ArgKeyCell(r, SingleKey)

(* C12: for a long table with neither a lap nor a timestamp column, the    *)
(* wide table has one row for every input row (its ordinal as key), also   *)
(* for rows whose channel value or channel name is missing.                *)
C12_EveryRowAddressable ==
    (Pivoted /\ KeyLabels = {ROW}) =>
        /\ Len(wide.table.rows) = Len(df.rows)
        /\ \A r \in DOMAIN df.rows : \E i \in DOMAIN wide.table.rows :
              CellAt(wide.table, i, ROW) = Some(Number(r - 1))

(* C13: every channel cell of the wide table is the arithmetic mean of the *)
(* observed values of that channel under that row's key (missing when      *)
(* there is none), and a single observation is reproduced unchanged.       *)
C13_CellIsMean ==
    Pivoted =>
        \A i \in DOMAIN wide.table.rows : \A c \in WideLabels \ KeyLabels :
            LET cell == CellAt(wide.table, i, c)
                obs == Measured(i, c)
            IN  /\ obs = {} => cell = NaN
                /\ obs # {} =>
                      /\ cell # NaN
                      /\ Val(cell).kind = "number"
                      /\ Val(cell).num[1] * Cardinality(obs)
                             = TotalOf(obs) * Val(cell).num[2]
                /\ Cardinality(Observations(i, c)) = 1 =>
                      \A r \in Observations(i, c) :
                          cell = CellAt(df, r, TELEMETRY_VALUE)

\* Two observations of one channel under one key, 10 and 20, give 15.
C13_Witness ==
    /\ Pivoted
    /\ \E i \in DOMAIN wide.table.rows :
          /\ HasColumn(wide.table, Text("speed"))
          /\ CellAt(wide.table, i, Text("speed")) = Some(Number(15))
          /\ Cardinality(Measured(i, Text("speed"))) = 2

(* C14: the non-key columns of the wide table are exactly the channel      *)
(* names seen in the long table, also a channel whose every observed value *)
(* is missing, and a channel cell is missing when the channel has no       *)
(* observation under that row's key.                                       *)
C14_ColumnsAreChannels ==
    Pivoted =>
        /\ WideLabels \ KeyLabels = ChannelsSeen
        /\ \A i \in DOMAIN wide.table.rows : \A c \in WideLabels \ KeyLabels :
              Observations(i, c) = {} => CellAt(wide.table, i, c) = NaN

(* C15: the pivot does not mutate its argument: after the call every       *)
(* column of the caller's table, timestamp included, holds the values and  *)
(* types it held before.                                                   *)
C15_ArgumentUntouched == [][df' = df]_vars

---------------------------------------------------------------------------
(* Vocabulary of the role-map properties                                   *)

\* The positions of the candidates of a role that are columns of t.
PresentCandidates(t, role) ==
    {i \in DOMAIN Candidates[role] : HasColumn(t, Text(Candidates[role][i]))}

EightRoles ==
    {"speed_col", "throttle_col", "brake_col", "lat_col", "lon_col",
     "lap_id_col", "distance_col", "time_col"}

SpeedNames == {"VBOX_Speed", "Speed", "speed"}

(* C16: each role resolves to the first name of its ordered candidate list *)
(* that is a column of the table, and to absent (never an error) when none *)
(* is; a table with VBOX_Speed, with or without Speed, gives speed_col =   *)
(* VBOX_Speed.                                                             *)
C16_FirstCandidate ==
    \A t \in page.df :
        /\ session_state # {}
        /\ \A m \in session_state :
              /\ \A role \in DOMAIN Candidates :
                    /\ PresentCandidates(t, role) = {} => m[role] = None
                    /\ PresentCandidates(t, role) # {} =>
                          m[role] = Some(Candidates[role][Least(PresentCandidates(t, role))])
              /\ HasColumn(t, Text("VBOX_Speed")) => m.speed_col = Some("VBOX_Speed")
              /\ (\A n \in SpeedNames : ~HasColumn(t, Text(n))) => m.speed_col = None

\* A table with both Speed and VBOX_Speed, resolved to VBOX_Speed.
C16_Witness ==
    \E t \in page.df : \E m \in session_state :
        /\ HasColumn(t, Text("Speed"))
        /\ HasColumn(t, Text("VBOX_Speed"))
        /\ m.speed_col = Some("VBOX_Speed")
        /\ m.throttle_col = None

(* C17: the role map of a loaded table has an entry for each of the eight  *)
(* roles speed_col, throttle_col, brake_col, lat_col, lon_col, lap_id_col, *)
(* distance_col and time_col, and a table with a timestamp column has its  *)
(* timestamp role mapped.                                                  *)
C17_EightRoles ==
    \A t \in page.df : \A m \in session_state :
        /\ DOMAIN m = EightRoles
        /\ HasColumn(t, TIMESTAMP) => m["time_col"] = Some("timestamp")

---------------------------------------------------------------------------
(* Vocabulary of the feature-matrix properties                             *)

MlBuilt == ml_out.status = "ok"

\* The labels of the source table whose column holds no text.
NumericLabels ==
    {ml_df.columns[j] : j \in {i \in DOMAIN ml_df.columns :
        \A r \in DOMAIN ml_df.rows :
            \A v \in ml_df.rows[r][i] : v.kind # "text"}}

SeqRange(q) == {q[i] : i \in DOMAIN q}

\* The rows of the source table where column c holds a finite value.
FiniteRows(c) ==
    {r \in DOMAIN ml_df.rows :
        /\ CellAt(ml_df, r, c) # NaN
        /\ CellAt(ml_df, r, c) \notin {Some(Inf), Some(NegInf)}}

\* The nearest finite value of column c at or before row r, else the
\* nearest after it, else missing.
NearestValid(c, r) ==
    LET before == {q \in FiniteRows(c) : q <= r}
        after == {q \in FiniteRows(c) : q > r}
    IN  IF before # {} THEN CellAt(ml_df, Greatest(before), c)
        ELSE IF after # {} THEN CellAt(ml_df, Least(after), c)
        ELSE NaN

(* C19: feature_columns are exactly the numeric columns of the source      *)
(* table minus the target and minus every excluded column, and X has       *)
(* exactly those columns; with a numeric lap, a numeric target and three   *)
(* other numeric columns, exclude = [lap] yields the three other columns.  *)
C19_FeatureColumns ==
    MlBuilt =>
        /\ SeqRange(ml_out.feature_cols)
               = NumericLabels \ (drop_cols \cup {target_col})
        /\ Cardinality(SeqRange(ml_out.feature_cols)) = Len(ml_out.feature_cols)
        /\ ml_out.X.columns = ml_out.feature_cols
        /\ (target_col = TARGET /\ drop_cols = {LAP}) =>
               ml_out.feature_cols = <<F1, F2, F3>>

\* lap excluded, the numeric target lap_time: the features are f1, f2, f3.
C19_Witness ==
    /\ MlBuilt
    /\ target_col = TARGET
    /\ drop_cols = {LAP}
    /\ ml_out.feature_cols = <<F1, F2, F3>>
    /\ ml_out.X.columns = <<F1, F2, F3>>
    /\ Len(ml_out.X.rows) = MaxSamples

(* C20: X holds no infinity; each cell of X is the source value when that  *)
(* is finite, else the nearest earlier finite value of its column, else    *)
(* the nearest later one, and it is missing only if the column has no      *)
(* finite value at all.                                                    *)
C20_FilledForwardThenBackward ==
    MlBuilt =>
        \A i \in DOMAIN ml_out.X.rows : \A c \in SeqRange(ml_out.X.columns) :
            LET cell == CellAt(ml_out.X, i, c)
                r == ml_out.index[i] + 1
            IN  /\ cell \notin {Some(Inf), Some(NegInf)}
                /\ cell = NearestValid(c, r)
                /\ cell = NaN => FiniteRows(c) = {}

\* f1 = -inf, 1, missing comes out as 1, 1, 1: the infinity is filled from
\* the later value and the missing cell from the earlier one.
C20_Witness ==
    /\ MlBuilt
    /\ Len(ml_df.rows) = 3
    /\ ColumnCells(ml_df, F1) = <<Some(NegInf), Some(Number(1)), NaN>>
    /\ Len(ml_out.X.rows) = 3
    /\ HasColumn(ml_out.X, F1)
    /\ ColumnCells(ml_out.X, F1)
           = <<Some(Number(1)), Some(Number(1)), Some(Number(1))>>

\* The finite values of the target column, by row.
FiniteTargetRows == IF HasColumn(ml_df, target_col) THEN FiniteRows(target_col) ELSE {}

(* C21: X and y have the same rows in the same order, and every one of     *)
(* those rows has a y value that is neither missing nor infinite.          *)
C21_AlignedValidTarget ==
    MlBuilt =>
        /\ ml_out.index = ml_out.y_index
        /\ Len(ml_out.X.rows) = Len(ml_out.index)
        /\ Len(ml_out.y) = Len(ml_out.y_index)
        /\ \A i \in DOMAIN ml_out.y :
              /\ ml_out.y[i] # NaN
              /\ ml_out.y[i] \notin {Some(Inf), Some(NegInf)}
              /\ ml_out.y[i] = NearestValid(target_col, ml_out.y_index[i] + 1)
        /\ \A i, j \in DOMAIN ml_out.index :
              i < j => ml_out.index[i] < ml_out.index[j]

\* Target inf, 90, missing: all three rows kept, y = 90, 90, 90.
C21_Witness ==
    /\ MlBuilt
    /\ target_col = TARGET
    /\ ColumnCells(ml_df, TARGET) = <<Some(Inf), Some(Number(90)), NaN>>
    /\ ml_out.y = <<Some(Number(90)), Some(Number(90)), Some(Number(90))>>
    /\ ml_out.index = <<0, 1, 2>>
    /\ Len(ml_out.X.rows) = 3

(* C28: the builder returns every row of the source table or none; rows    *)
(* are excluded only when the target column has no finite value in any     *)
(* row, and then all of them are.                                          *)
C28_AllRowsOrNone ==
    MlBuilt =>
        /\ FiniteTargetRows # {} =>
              ml_out.index = [r \in DOMAIN ml_df.rows |-> r - 1]
        /\ FiniteTargetRows = {} => ml_out.index = <<>>
        /\ Len(ml_out.X.rows) \in {0, Len(ml_df.rows)}
        /\ Len(ml_out.y) = Len(ml_out.X.rows)

\* A target of missing and infinite values only: no row is returned.
C28_Witness ==
    /\ MlBuilt
    /\ target_col = TARGET
    /\ Len(ml_df.rows) >= 2
    /\ ColumnCells(ml_df, TARGET)[1] = NaN
    /\ ColumnCells(ml_df, TARGET)[2] = Some(NegInf)
    /\ FiniteTargetRows = {}
    /\ ml_out.X.rows = <<>>
    /\ ml_out.y = <<>>
    /\ ml_out.X.columns # <<>>

---------------------------------------------------------------------------
(* Vocabulary of the rearrangement properties                              *)

\* A summary row without its position and session label.
CoreRecord(r) ==
    [key |-> RowKey(r), timestamp_start |-> r.timestamp_start,
     timestamp_end |-> r.timestamp_end, timestamp_lap |-> r.timestamp_lap,
     duration_s |-> r.duration_s]

RecordSet(rows) == {CoreRecord(rows[i]) : i \in DOMAIN rows}

\* q with the rows at positions i and i + 1 exchanged.
Swapped(q, i) ==
    [j \in DOMAIN q |-> IF j = i THEN q[i + 1] ELSE IF j = i + 1 THEN q[i] ELSE q[j]]

\* The files q turns into by exchanging two neighbouring rows or by
\* repeating one row (behind itself or at the end).
Rearranged(q) ==
    {Swapped(q, i) : i \in 1..(Len(q) - 1)}
        \cup {Append(q, q[i]) : i \in DOMAIN q}
        \cup {SubSeq(q, 1, i) \o <<q[i]>> \o SubSeq(q, i + 1, Len(q)) : i \in DOMAIN q}

(* C27: the set of lap summary records (identity, timestamp_start,         *)
(* timestamp_end, timestamp_lap, duration_s) stays the same when the rows  *)
(* of one of the three event tables are reordered or one of its rows is    *)
(* duplicated.                                                             *)
C27_OrderAndDuplicatesIrrelevant ==
    Built =>
        /\ \A q \in Rearranged(start_file.rows) :
              RecordSet(Reconcile(q, end_file.rows, time_file.rows))
                  = RecordSet(lap_summary.rows)
        /\ \A q \in Rearranged(end_file.rows) :
              RecordSet(Reconcile(start_file.rows, q, time_file.rows))
                  = RecordSet(lap_summary.rows)
        /\ \A q \in Rearranged(time_file.rows) :
              RecordSet(Reconcile(start_file.rows, end_file.rows, q))
                  = RecordSet(lap_summary.rows)

\* Two starts of one lap, the later one first in the file: the summary has
\* the earlier start, as it has for the file in the other order.
C27_Witness ==
    /\ Built
    /\ Len(start_file.rows) = 2
    /\ start_file.rows[1] = Ev(IdP, RawStamp(100200))
    /\ start_file.rows[2] = Ev(IdP, RawStamp(100000))
    /\ \E i \in DOMAIN lap_summary.rows :
          /\ RowKey(lap_summary.rows[i]) = IdP
          /\ lap_summary.rows[i].timestamp_start = Some(100000)
          /\ lap_summary.rows[i].timestamp_end = Some(195000)

(* C30: after the duration filter the causality filter removes nothing:    *)
(* every merged record with 75.0 <= duration_s < 400.0 has timestamp_end > *)
(* timestamp_start and is in the summary, and a lap with timestamp_end =   *)
(* timestamp_start + 1 s is never retained.                                *)
C30_CausalityRedundant ==
    Built =>
        /\ \A i \in DOMAIN lap_merged :
              LET m == lap_merged[i]
              IN  /\ (m.duration_s # NaN /\ Val(m.duration_s) >= 75000
                         /\ Val(m.duration_s) < 400000)
                        => /\ m.timestamp_start # NaT
                           /\ m.timestamp_end # NaT
                           /\ Val(m.timestamp_end) > Val(m.timestamp_start)
                           /\ Retained(m)
                  /\ (m.timestamp_start # NaT /\ m.timestamp_end # NaT
                         /\ Val(m.timestamp_end) = Val(m.timestamp_start) + 1000)
                        => ~Retained(m)
        /\ Len(lap_summary.rows)
              = Cardinality({i \in DOMAIN lap_merged :
                    /\ lap_merged[i].duration_s # NaN
                    /\ Val(lap_merged[i].duration_s) >= 75000
                    /\ Val(lap_merged[i].duration_s) < 400000})

\* A lap of 1 s (end after start, outside the band) is dropped beside a
\* lap of 95 s that is kept.
C30_Witness ==
    /\ Built
    /\ \E i \in DOMAIN lap_merged :
          /\ lap_merged[i].timestamp_start = Some(100000)
          /\ lap_merged[i].timestamp_end = Some(101000)
          /\ ~Retained(lap_merged[i])
    /\ Len(lap_summary.rows) = 1

---------------------------------------------------------------------------
(* Vocabulary of the labeler properties                                    *)

Labelled == lab_out.status = "ok"

\* The target column of the table passed to the labeler.
TargetValues == ColumnCells(lab_df, lab_target)

\* The rows where the target is not missing.
PresentRows == {r \in DOMAIN lab_df.rows : TargetValues[r] # NaN}

TargetAt(r) == Val(TargetValues[r]).num

\* The k-th smallest of the non-missing target values.
OrderStatistic(k) ==
    TargetAt(CHOOSE r \in PresentRows :
        /\ Cardinality({q \in PresentRows : FracLess(TargetAt(q), TargetAt(r))}) < k
        /\ k <= Cardinality({q \in PresentRows :
                                ~FracLess(TargetAt(r), TargetAt(q))}))

\* x lies strictly below the median of the non-missing target values:
\* twice x is below the sum of the two middle values (one value counted
\* twice when their number is odd).
BelowMedian(x) ==
    LET n == Cardinality(PresentRows)
    IN  /\ n > 0
        /\ FracLess(FracAdd(x, x),
                    FracAdd(OrderStatistic((n + 1) \div 2),
                            OrderStatistic(n \div 2 + 1)))

\* Row r lies strictly below the threshold of the call.
BelowThreshold(r) ==
    /\ r \in PresentRows
    /\ IF lab_threshold = Median THEN BelowMedian(TargetAt(r))
       ELSE FracLess(TargetAt(r), lab_threshold.num)

\* The label the result gives row r.
LabelAt(r) == CellAt(lab_out.table, r, lab_label)

FastRows == {r \in DOMAIN lab_out.table.rows : LabelAt(r) = Some(Number(1))}

Ints(q) == [i \in DOMAIN q |-> Some(Number(q[i]))]

(* C22: the labeler gives a row 1 exactly when its target value is         *)
(* strictly below the threshold and 0 otherwise (equal or missing: 0);     *)
(* with "median" the threshold is the median of the target column of the   *)
(* table passed, so the targets 10, 20, 30, 40, 50 get 1, 1, 0, 0, 0.      *)
C22_LabelBelowThreshold ==
    Labelled =>
        /\ HasColumn(lab_out.table, lab_label)
        /\ DOMAIN lab_out.table.rows = DOMAIN lab_df.rows
        /\ \A r \in DOMAIN lab_df.rows :
              LabelAt(r) = IF BelowThreshold(r) THEN Some(Number(1))
                           ELSE Some(Number(0))
        /\ (lab_threshold = Median
                /\ TargetValues = Ints(<<10, 20, 30, 40, 50>>))
              => ColumnCells(lab_out.table, lab_label) = Ints(<<1, 1, 0, 0, 0>>)

\* The targets 10, 20, 30, 40, 50 were labelled against their median.
C22_Witness ==
    /\ Labelled
    /\ lab_threshold = Median
    /\ lab_target = TARGET
    /\ lab_label = IS_FAST_LAP
    /\ TargetValues = Ints(<<10, 20, 30, 40, 50>>)
    /\ ColumnCells(lab_out.table, IS_FAST_LAP) = Ints(<<1, 1, 0, 0, 0>>)

(* C23: called with a target column the table lacks, the labeler raises    *)
(* ValueError, returns no table, and the caller's table is as before, with *)
(* no label column added.                                                  *)
C23_MissingTargetRejected ==
    [][(lab_out = NotLabelled /\ ~HasColumn(lab_df, lab_target))
          => /\ lab_out' = ValueError
             /\ lab_df' = lab_df
             /\ HasColumn(lab_df', lab_label) = HasColumn(lab_df, lab_label)]_vars

\* The labeler rejected a call for the absent column sector_time and the
\* caller's table has no is_fast_lap column.
C23_Witness ==
    /\ lab_out = ValueError
    /\ lab_target = Text("sector_time")
    /\ ~HasColumn(lab_df, lab_target)
    /\ lab_label = IS_FAST_LAP
    /\ lab_df.columns = LabelColumns

(* C29: with threshold "median" at most floor(n/2) of the n rows are       *)
(* labelled 1, and no row is labelled 1 when all non-missing target values *)
(* are equal.                                                              *)
C29_AtMostHalfFast ==
    (Labelled /\ lab_threshold = Median) =>
        /\ 2 * Cardinality(FastRows) <= Len(lab_df.rows)
        /\ (\A q, r \in PresentRows : TargetValues[q] = TargetValues[r])
              => FastRows = {}

\* Four laps, two of them below the median: exactly half are fast.
C29_Witness ==
    /\ Labelled
    /\ lab_threshold = Median
    /\ Len(lab_df.rows) = 4
    /\ PresentRows = 1..4
    /\ Cardinality(FastRows) = 2

---------------------------------------------------------------------------
(* Vocabulary of the numeric coercion properties                           *)

Cleaned == clean_out # NotCleaned

\* Column j of the caller's table, top to bottom.
RawColumn(j) == [r \in DOMAIN raw_df.rows |-> raw_df.rows[r][j]]

\* Column j holds text and one of its values is not a number.
Unconvertible(j) ==
    /\ \E r \in DOMAIN raw_df.rows : \E v \in raw_df.rows[r][j] : v.kind # "number"
    /\ \E r \in DOMAIN raw_df.rows : \E v \in raw_df.rows[r][j] : v.kind = "text"

(* C24: numeric coercion never raises; a text column with a value that     *)
(* does not parse is returned unchanged; a column whose values are all     *)
(* missing is absent from the result and every column with a non-missing   *)
(* value is kept.                                                          *)
C24_CoercionSafe ==
    Cleaned =>
        /\ clean_out.status = "ok"
        /\ \A j \in DOMAIN raw_df.columns :
              LET c == raw_df.columns[j]
              IN  /\ HasColumn(clean_out.table, c)
                        <=> (\E r \in DOMAIN raw_df.rows : raw_df.rows[r][j] # NaN)
                  /\ Unconvertible(j)
                        => ColumnCells(clean_out.table, c) = RawColumn(j)

---------------------------------------------------------------------------
(* C25: numeric coercion, the labeler and the feature matrix builder leave *)
(* the table they were called with as it was, whether they return or       *)
(* raise.                                                                  *)
C25_ArgumentsUntouched ==
    [][raw_df' = raw_df /\ lab_df' = lab_df /\ ml_df' = ml_df]_vars

\* The labeler returned a table with the new column is_fast_lap, which the
\* table it was called with does not have.
C25_Witness ==
    /\ Labelled
    /\ lab_label = IS_FAST_LAP
    /\ HasColumn(lab_out.table, IS_FAST_LAP)
    /\ ~HasColumn(lab_df, IS_FAST_LAP)
    /\ lab_df.columns = LabelColumns
    /\ Len(lab_df.rows) = 2

---------------------------------------------------------------------------
(* C26: every table that reaches guess_columns through                     *)
(* sidebar_data_selector is the table read from the CSV after numeric      *)
(* coercion and then the long->wide pivot.                                 *)
C26_CoercedThenPivoted ==
    \A t \in page.df :
        /\ clean_numeric(csv).status = "ok"
        /\ t = pivot_trd_long_to_wide(clean_numeric(csv).table).table

============================================================================
